---- MODULE Spec2Model ----
(***************************************************************************)
(* A model of scripts/parse_fact.js: the extraction of the literal that    *)
(* follows `DisconSchedule.fact =` in an HTML page, its parsing, its       *)
(* normalization and the non-destructive, atomically written update of the *)
(* region's JSON document.                                                 *)
(*                                                                         *)
(* Texts are sequences of lexemes (strings), JavaScript values are tagged  *)
(* records, JavaScript strings that the code takes apart (keys, dates,     *)
(* times) are sequences of one-character strings, timestamps produced by   *)
(* isoNow() are the reading of a millisecond clock.                        *)
(***************************************************************************)
EXTENDS Integers, Sequences, FiniteSets, TLC

VARIABLES
  hourCycle,  \* how the runtime's Intl prints the hours of a day when asked
              \* for hour12: false: 00..23 ("h23") or 01..24 ("h24")
  cmd,        \* the command line the driver uses for the region
  templateJson, \* the parsed data/_template.json, null when it cannot be read
  fs,         \* the file system: the content of every path the script writes
  clock,      \* the wall clock read by isoNow()
  runs,       \* number of invocations started so far
  pc,         \* position of the invocation: "idle" when none runs, "exited"
              \* when it has ended and its caller has not yet taken its status
  args,       \* parsed command line of the running invocation
  input,      \* the input path as the running invocation finds it
  ext,        \* result of extractFact in the running invocation
  parsed,     \* result of tryParseObject in the running invocation
  existing,   \* the document loadExisting returned to the invocation
  pending,    \* the text handed to writeFileAtomic
  thrown,     \* TRUE while an exception travels to the handler of line 391
  outcome,    \* how the invocation ended its processing
  exitCode,   \* exit status of the ended invocation
  executed,   \* the invocation evaluated an expression of the input text
  writes,     \* the calls of writeFileAtomic the invocation has completed
  drv,        \* scripts/parse_regions.sh: its position, the files it found, its
              \* counters, the invocations it made and its exit status
  peer        \* an invocation for another region that runs at the same time

vars == <<hourCycle, cmd, templateJson, fs, clock, runs, pc, args, input, ext, parsed,
          existing, pending, thrown, outcome, exitCode, executed, writes, drv, peer>>

-----------------------------------------------------------------------------
(* Bounds of the model *)

\* invocations of the script for the region in one behaviour
MaxRuns == 2

\* last reading of the clock (the clock starts at 1)
MaxClock == 2
\* longest text, in lexemes, the Literal Locator is run on
MaxText == 5

-----------------------------------------------------------------------------
(* JavaScript values *)

Null == [t |-> "null"]
Undefined == [t |-> "undefined"]
Bool(b) == [t |-> "boolean", b |-> b]
Num(n) == [t |-> "number", n |-> n]
BigIntLit == [t |-> "bigint"]
Str(chars) == [t |-> "string", s |-> chars]
Arr(items) == [t |-> "array", items |-> items]
Obj(members) == [t |-> "object", m |-> members]
\* nodes of an expression that are not literals
IdentRef == [t |-> "ident"]
CallExpr == [t |-> "call"]
\* an ISO timestamp string made by isoNow(): new Date().toISOString()
Iso(ms) == [t |-> "isotime", ms |-> ms]
\* a console/status message
Msg(text) == [t |-> "message", text |-> text]
\* a URL string
Url(u) == [t |-> "url", u |-> u]

\* the values JavaScript takes for false: null, undefined, false, 0, ''
Truthy(v) ==
  /\ v.t \notin {"null", "undefined"}
  /\ v.t = "boolean" => v.b
  /\ v.t = "number" => v.n # 0
  /\ v.t = "string" => v.s # <<>>

isObject(x) == Truthy(x) /\ x.t = "object"

\* Object.keys(o)
Keys(o) == [i \in 1..Len(o.m) |-> o.m[i].k]

HasOwn(o, key) == o.t = "object" /\ \E i \in 1..Len(o.m) : o.m[i].k = key

\* o[key]; undefined when o has no such property
Get(o, key) ==
  IF HasOwn(o, key)
    THEN o.m[CHOOSE i \in 1..Len(o.m) : o.m[i].k = key].v
    ELSE Undefined

\* o[key] = v: an existing key keeps its place, a new one is appended
Put(members, key, v) ==
  IF \E i \in 1..Len(members) : members[i].k = key
    THEN [i \in 1..Len(members) |->
            IF members[i].k = key THEN [k |-> key, v |-> v] ELSE members[i]]
    ELSE Append(members, [k |-> key, v |-> v])

-----------------------------------------------------------------------------
(* Strings as characters *)

Digits == <<"0", "1", "2", "3", "4", "5", "6", "7", "8", "9">>
IsDigit(c) == \E d \in 1..10 : Digits[d] = c
DigitVal(c) == (CHOOSE d \in 1..10 : Digits[d] = c) - 1
Letters == {"G", "P", "V", "d", "a", "t", "n", "o", "e", "s", "r", "h", "y"}
IsLetter(c) == c \in Letters

K_data == <<"d", "a", "t", "a">>
K_note == <<"n", "o", "t", "e">>
K_gpv == <<"G", "P", "V", "1", ".", "1">>
K_date == <<"d", "a", "t", "e">>
K_start == <<"s", "t", "a", "r", "t">>
K_end == <<"e", "n", "d">>
K_startLocal == <<"s", "t", "a", "r", "t", "L", "o", "c", "a", "l">>
K_endLocal == <<"e", "n", "d", "L", "o", "c", "a", "l">>

\* pad2(n): String(n).padStart(2, '0')
RECURSIVE Dec(_)
Dec(n) == IF n < 10 THEN <<Digits[n + 1]>> ELSE Dec(n \div 10) \o <<Digits[(n % 10) + 1]>>
pad2(n) == IF n < 10 THEN <<"0">> \o Dec(n) ELSE Dec(n)

\* Number(chars) of a string of digits; the empty string converts to 0
IsNumeric(chars) == \A i \in 1..Len(chars) : IsDigit(chars[i])
RECURSIVE Number(_)
Number(chars) ==
  IF chars = <<>> THEN 0
  ELSE 10 * Number(SubSeq(chars, 1, Len(chars) - 1)) + DigitVal(chars[Len(chars)])

\* chars.split(sep)
RECURSIVE Split(_, _)
Split(chars, sep) ==
  IF \E i \in 1..Len(chars) : chars[i] = sep
    THEN LET i == CHOOSE j \in 1..Len(chars) :
                    chars[j] = sep /\ \A k \in 1..(j - 1) : chars[k] # sep
         IN <<SubSeq(chars, 1, i - 1)>> \o Split(SubSeq(chars, i + 1, Len(chars)), sep)
    ELSE <<chars>>

\* String(v) for the values a date or time field holds
ToStringChars(v) == IF v.t = "string" THEN v.s ELSE IF v.t = "number" THEN Dec(v.n) ELSE <<"?">>

-----------------------------------------------------------------------------
(* Date: instants are counted in minutes since 1970-01-01T00:00Z; every    *)
(* instant the code builds has zero seconds and milliseconds.              *)

\* days since the epoch of the proleptic Gregorian date y-m-d (m in 1..12)
DaysOfYoe(era, yoe, doy) == era * 146097 + yoe * 365 + yoe \div 4 - yoe \div 100 + doy - 719468
DaysOfShifted(yy, mp, d) ==
  DaysOfYoe(yy \div 400, yy % 400, (153 * mp + 2) \div 5 + d - 1)
DaysFromCivil(y, m, d) ==
  DaysOfShifted(IF m <= 2 THEN y - 1 ELSE y, IF m > 2 THEN m - 3 ELSE m + 9, d)

\* the date [y, m, d] of a day number
CivilOfMp(era, yoe, doy, mp) ==
  [y |-> yoe + era * 400 + (IF mp < 10 THEN 0 ELSE 1),
   m |-> IF mp < 10 THEN mp + 3 ELSE mp - 9,
   d |-> doy - (153 * mp + 2) \div 5 + 1]
CivilOfDoy(era, yoe, doy) == CivilOfMp(era, yoe, doy, (5 * doy + 2) \div 153)
CivilOfYoe(era, doe, yoe) ==
  CivilOfDoy(era, yoe, doe - (365 * yoe + yoe \div 4 - yoe \div 100))
CivilOfDoe(era, doe) ==
  CivilOfYoe(era, doe, (doe - doe \div 1460 + doe \div 36524 - doe \div 146096) \div 365)
CivilFromDays(z0) == CivilOfDoe((z0 + 719468) \div 146097, (z0 + 719468) % 146097)

\* Date.UTC(Y, monthIndex, D, h, m, 0) in minutes; a year 0..99 is 1900 + Y,
\* out-of-range fields carry over
DateUTC(Y, monthIndex, D, h, m) ==
  ((DaysFromCivil((IF Y <= 99 THEN 1900 + Y ELSE Y) + monthIndex \div 12,
                  (monthIndex % 12) + 1, 1) + D - 1) * 24 + h) * 60 + m

\* the getUTC* fields of an instant
FieldsOf(c, ts) ==
  [y |-> c.y, m |-> c.m, d |-> c.d, h |-> (ts % 1440) \div 60, mi |-> ts % 60]
UtcFields(ts) == FieldsOf(CivilFromDays(ts \div 1440), ts)

\* Europe/Kyiv in 2025: EET (UTC+2), EEST (UTC+3) from the last Sunday of
\* March 01:00Z to the last Sunday of October 01:00Z
DstStart == DateUTC(2025, 2, 30, 1, 0)
DstEnd == DateUTC(2025, 9, 26, 1, 0)

\* the offset of the zone at an instant
KyivOffset(utcTs) == IF DstStart <= utcTs /\ utcTs < DstEnd THEN 180 ELSE 120

\* the hour cycles hour12: false resolves to for en-US, by the version of the
\* runtime's Intl
HourCycles == {"h23", "h24"}

\* the hour formatToParts prints for an instant: with the cycle h24 the first
\* hour of a day is printed 24, on that same day
PrintedHour(localTs) ==
  IF hourCycle = "h24" /\ (localTs % 1440) \div 60 = 0 THEN 24 ELSE (localTs % 1440) \div 60

\* lines 179-183: the printed wall clock read back by Date.UTC (an hour 24
\* carries into the next day), minus the instant
tzOffsetMinutes(utcTs) ==
  KyivOffset(utcTs)
  + (PrintedHour(utcTs + KyivOffset(utcTs)) - ((utcTs + KyivOffset(utcTs)) % 1440) \div 60) * 60

\* parts[i] converted by Number, then `|| dflt`: a missing part (undefined),
\* NaN and 0 give the default
OrDefault(parts, i, dflt) ==
  IF Len(parts) >= i /\ IsNumeric(parts[i]) /\ Number(parts[i]) # 0
    THEN Number(parts[i]) ELSE dflt

\* lines 192-194: the guess shifted by the offset at the guess
ShiftByOffset(guess) == guess - tzOffsetMinutes(guess)

\* lines 187-190 on the split strings; Date.UTC is NaN when the year is
UtcOfParts(dp, tp) ==
  IF IsNumeric(dp[1])
    THEN [valid |-> TRUE,
          ts |-> ShiftByOffset(DateUTC(Number(dp[1]), OrDefault(dp, 2, 1) - 1,
                                       OrDefault(dp, 3, 1), OrDefault(tp, 1, 0),
                                       OrDefault(tp, 2, 0)))]
    ELSE [valid |-> FALSE, ts |-> 0]

\* zonedTimeToUtc(dateStr, timeStr, tz): [valid, ts]; valid is FALSE for the
\* Invalid Date
zonedTimeToUtc(dateStr, timeStr) == UtcOfParts(Split(dateStr, "-"), Split(timeStr, ":"))

formatOffset(totalMinutes) ==
  <<IF totalMinutes >= 0 THEN "+" ELSE "-">>
  \o pad2((IF totalMinutes >= 0 THEN totalMinutes ELSE -totalMinutes) \div 60)
  \o <<":">>
  \o pad2((IF totalMinutes >= 0 THEN totalMinutes ELSE -totalMinutes) % 60)

\* lines 209-212: the UTC fields of the instant, then the offset
FormatIso(f, off) ==
  Dec(f.y) \o <<"-">> \o pad2(f.m) \o <<"-">> \o pad2(f.d) \o <<"T">>
  \o pad2(f.h) \o <<":">> \o pad2(f.mi) \o <<":">> \o pad2(0) \o formatOffset(off)

IsoOfUtc(u) ==
  IF ~u.valid THEN [ok |-> FALSE, s |-> <<>>]
  ELSE [ok |-> TRUE, s |-> FormatIso(UtcFields(u.ts), tzOffsetMinutes(u.ts))]

\* toKyivIso(dateStr, timeStr): [ok, s]; ok is FALSE when formatToParts throws
\* RangeError on the Invalid Date
toKyivIso(dateStr, timeStr) == IsoOfUtc(zonedTimeToUtc(dateStr, timeStr))

-----------------------------------------------------------------------------
(* Group Normalizer *)

\* /^[A-ZА-Я]{2,}\d+\.\d+$/i
groupKeyRe(k) ==
  \E a \in 2..Len(k), b \in 3..Len(k) :
    /\ a < b /\ b < Len(k)
    /\ \A i \in 1..a : IsLetter(k[i])
    /\ \A i \in (a + 1)..(b - 1) : IsDigit(k[i])
    /\ a + 1 <= b - 1
    /\ k[b] = "."
    /\ \A i \in (b + 1)..Len(k) : IsDigit(k[i])

\* /^\d{1,2}:\d{2}$/ on a value; only strings of the modelled values match
timeRe(v) ==
  /\ v.t = "string"
  /\ Len(v.s) \in {4, 5}
  /\ v.s[Len(v.s) - 2] = ":"
  /\ \A i \in 1..Len(v.s) : i # Len(v.s) - 2 => IsDigit(v.s[i])

\* String(v) throws TypeError on an object whose own toString property is not
\* a function (Object.prototype.valueOf returns the object itself)
K_toString == <<"t", "o", "S", "t", "r", "i", "n", "g">>
StringThrows(v) == v.t = "object" /\ HasOwn(v, K_toString)

\* a || b || c || null over the aliases of a field
FirstTruthy(entry, aliases) ==
  IF \E i \in 1..Len(aliases) : Truthy(Get(entry, aliases[i]))
    THEN Get(entry, aliases[CHOOSE i \in 1..Len(aliases) :
                /\ Truthy(Get(entry, aliases[i]))
                /\ \A j \in 1..(i - 1) : ~Truthy(Get(entry, aliases[j]))])
    ELSE Null

DateAliases == <<K_date, <<"d", "a", "y">>, <<"d">>>>
StartAliases == <<K_start, <<"f", "r", "o", "m">>, <<"b", "e", "g", "i", "n">>, <<"s">>>>
EndAliases == <<K_end, <<"t", "o">>, <<"f", "i", "n", "i", "s", "h">>, <<"e">>>>

\* lines 235-236: HH:mm
PadTime(chars) == IF Len(chars) = 4 THEN <<"0">> \o chars ELSE chars

\* lines 238-246: the item made of the two timestamps, the raw entry when
\* toKyivIso threw
ItemOf(entry, dateStr, startISO, endISO) ==
  IF startISO.ok /\ endISO.ok
    THEN Obj(<<[k |-> K_date, v |-> Str(dateStr)],
               [k |-> K_startLocal, v |-> Str(startISO.s)],
               [k |-> K_endLocal, v |-> Str(endISO.s)]>>)
    ELSE entry

\* lines 233-246 for the fields found
Reshape(entry, date, start, end) ==
  IF Truthy(date) /\ Truthy(start) /\ Truthy(end) /\ timeRe(start) /\ timeRe(end)
     /\ ~StringThrows(date)
    THEN ItemOf(entry, ToStringChars(date),
                toKyivIso(ToStringChars(date), PadTime(start.s)),
                toKyivIso(ToStringChars(date), PadTime(end.s)))
    ELSE entry

\* line 233: timeRe.test converts its argument to a string, before the try
\* block of line 237
ReshapeThrows(date, start, end) ==
  /\ Truthy(date) /\ Truthy(start) /\ Truthy(end)
  /\ StringThrows(start) \/ (timeRe(start) /\ StringThrows(end))

EntryThrows(entry) ==
  /\ isObject(entry)
  /\ ReshapeThrows(FirstTruthy(entry, DateAliases), FirstTruthy(entry, StartAliases),
                   FirstTruthy(entry, EndAliases))

\* one iteration of the loop of lines 227-247: the item pushed for `entry`
NormalizeEntry(entry) ==
  IF ~isObject(entry) THEN entry
  ELSE Reshape(entry, FirstTruthy(entry, DateAliases), FirstTruthy(entry, StartAliases),
               FirstTruthy(entry, EndAliases))

\* the loop of lines 221-249 over the members from index i on
RECURSIVE GroupsFrom(_, _, _)
GroupsFrom(members, i, out) ==
  IF i > Len(members) THEN out
  ELSE LET k == members[i].k
           v == members[i].v
       IN IF ~groupKeyRe(k) THEN GroupsFrom(members, i + 1, out)
          ELSE IF v.t # "array" THEN GroupsFrom(members, i + 1, Put(out, k, v))
          ELSE GroupsFrom(members, i + 1,
                 Put(out, k, Arr([j \in 1..Len(v.items) |-> NormalizeEntry(v.items[j])])))

\* line 250
GroupsOrNull(out) == IF Len(out) > 0 THEN Obj(out) ELSE Null

extractGroupsWithIso(data) ==
  IF ~isObject(data) THEN Null ELSE GroupsOrNull(GroupsFrom(data.m, 1, <<>>))

\* the loop throws out of extractGroupsWithIso
extractGroupsThrows(data) ==
  /\ isObject(data)
  /\ \E i \in 1..Len(data.m) :
       /\ groupKeyRe(data.m[i].k)
       /\ data.m[i].v.t = "array"
       /\ \E j \in 1..Len(data.m[i].v.items) : EntryThrows(data.m[i].v.items[j])

-----------------------------------------------------------------------------
(* Texts: an HTML page is a sequence of lexemes.  MARKER is the text        *)
(* `DisconSchedule.fact =`; the other lexemes are a blank, a brace, some    *)
(* other character, or a key or a value of an object literal (separators    *)
(* between members are not lexemes of their own).                           *)

MARKER == "DisconSchedule.fact ="
WS == " "
Punct == ";"

\* key lexemes: "data": and "GPV1.1": and "note": are quoted, data: is not
KeyTokens == {"\"data\":", "data:", "\"GPV1.1\":", "\"note\":"}
QuotedKeyTokens == KeyTokens \ {"data:"}
KeyOf(tk) ==
  CASE tk \in {"\"data\":", "data:"} -> K_data
    [] tk = "\"GPV1.1\":" -> K_gpv
    [] OTHER -> K_note

\* entries of a schedule
EntryRecognized ==
  Obj(<<[k |-> K_date, v |-> Str(<<"2", "0", "2", "5", "-", "0", "3", "-", "3", "0">>)],
        [k |-> K_start, v |-> Str(<<"2", ":", "0", "0">>)],
        [k |-> K_end, v |-> Str(<<"4", ":", "0", "0">>)]>>)
EntryUnrecognized ==
  Obj(<<[k |-> K_date, v |-> Str(<<"2", "0", "2", "5", "-", "0", "3", "-", "3", "0">>)],
        [k |-> K_start, v |-> Str(<<"2", "h">>)],
        [k |-> K_end, v |-> Str(<<"4", ":", "0", "0">>)]>>)

\* value lexemes: null, 1, two array literals of one entry each (valid JSON),
\* the BigInt literal 1n, an identifier and a call (JavaScript only)
JsonValueTokens == {"null", "1", "[{date,start:2:00,end}]", "[{date,start:2h,end}]"}
ValueTokens == JsonValueTokens \cup {"1n", "foo", "run()"}
TokenValue(tk) ==
  CASE tk = "null" -> Null
    [] tk = "1" -> Num(1)
    [] tk = "[{date,start:2:00,end}]" -> Arr(<<EntryRecognized>>)
    [] tk = "[{date,start:2h,end}]" -> Arr(<<EntryUnrecognized>>)
    [] tk = "1n" -> BigIntLit
    [] tk = "foo" -> IdentRef
    [] OTHER -> CallExpr

Tokens == {MARKER, WS, Punct, "{", "}"} \cup KeyTokens \cup ValueTokens

-----------------------------------------------------------------------------
(* Literal Locator *)

\* html.indexOf(marker): 0 when the marker does not occur (indices from 1)
IndexOfMarker(html) ==
  IF \E i \in 1..Len(html) : html[i] = MARKER
    THEN CHOOSE i \in 1..Len(html) :
           html[i] = MARKER /\ \A j \in 1..(i - 1) : html[j] # MARKER
    ELSE 0

\* a locator that does not skip the blanks after the marker
NoSkip(html, i) == i

\* while (i < html.length && /\s/.test(html[i])) i++
RECURSIVE SkipWhitespace(_, _)
SkipWhitespace(html, i) ==
  IF i <= Len(html) /\ html[i] = WS THEN SkipWhitespace(html, i + 1) ELSE i

\* a scan that stops at the first closing brace, whatever the depth
ScanToFirstClose(html, i, depth) ==
  IF \E j \in i..Len(html) : html[j] = "}"
    THEN CHOOSE j \in i..Len(html) : html[j] = "}" /\ \A k \in i..(j - 1) : html[k] # "}"
    ELSE 0

\* the loop of lines 68-79: the index of the closing brace, 0 when there is none
RECURSIVE ScanBraces(_, _, _)
ScanBraces(html, i, depth) ==
  IF i > Len(html) THEN 0
  ELSE IF html[i] = "{" THEN ScanBraces(html, i + 1, depth + 1)
  ELSE IF html[i] = "}"
    THEN IF depth - 1 = 0 THEN i ELSE ScanBraces(html, i + 1, depth - 1)
  ELSE ScanBraces(html, i + 1, depth)

NoExt == [error |-> "none", jsonLike |-> <<>>, startIndex |-> 0, endIndex |-> 0]

extractFact(html) ==
  LET idx == IndexOfMarker(html)
      i == SkipWhitespace(html, idx + 1)
      close == ScanBraces(html, i, 0)
  IN IF idx = 0 THEN [NoExt EXCEPT !.error = "Marker not found"]
     ELSE IF i > Len(html) \/ html[i] # "{"
       THEN [NoExt EXCEPT !.error = "Expected brace after marker"]
     ELSE IF close = 0
       THEN [NoExt EXCEPT !.error = "Unbalanced braces while extracting fact object"]
     ELSE [error |-> "none", jsonLike |-> SubSeq(html, i, close),
           startIndex |-> i, endIndex |-> close + 1]

-----------------------------------------------------------------------------
(* Safe Structural Parser *)

\* blanks between lexemes mean nothing to JSON.parse and to the JavaScript parser
Lex(text) == SelectSeq(text, LAMBDA tk : tk # WS)

ParseFail == [ok |-> FALSE, v |-> Undefined, i |-> 0]

\* The grammar of an object literal over the lexemes; strict is TRUE for
\* JSON.parse (quoted keys, JSON values only), FALSE for the JavaScript parser.
RECURSIVE ParseValue(_, _, _), ParseMembers(_, _, _, _), ParseRest(_, _, _, _, _)
ParseValue(toks, i, strict) ==
  IF i > Len(toks) THEN ParseFail
  ELSE IF toks[i] = "{" THEN ParseMembers(toks, i + 1, strict, <<>>)
  ELSE IF toks[i] \in (IF strict THEN JsonValueTokens ELSE ValueTokens)
    THEN [ok |-> TRUE, v |-> TokenValue(toks[i]), i |-> i + 1]
  ELSE ParseFail

ParseMembers(toks, i, strict, acc) ==
  IF i > Len(toks) THEN ParseFail
  ELSE IF toks[i] = "}" THEN [ok |-> TRUE, v |-> Obj(acc), i |-> i + 1]
  ELSE IF toks[i] \in (IF strict THEN QuotedKeyTokens ELSE KeyTokens)
    THEN ParseRest(toks, KeyOf(toks[i]), ParseValue(toks, i + 1, strict), strict, acc)
  ELSE ParseFail

\* the members after the one whose value r has just been parsed
ParseRest(toks, key, r, strict, acc) ==
  IF r.ok THEN ParseMembers(toks, r.i, strict, Put(acc, key, r.v)) ELSE ParseFail

\* the whole text must be the one value
WholeText(r, len) ==
  IF r.ok /\ r.i = len + 1 THEN [ok |-> TRUE, v |-> r.v] ELSE [ok |-> FALSE, v |-> Undefined]

ParseLexed(toks, strict) == WholeText(ParseValue(toks, 1, strict), Len(toks))

\* the text as one expression: [ok, v]
ParseText(text, strict) == ParseLexed(Lex(text), strict)

\* the nodes of an expression that are not literals, in evaluation order
RECURSIVE Effects(_), EffectsOfMembers(_, _), EffectsOfItems(_, _)
Effects(ast) ==
  IF ast.t \in {"ident", "call"} THEN <<ast.t>>
  ELSE IF ast.t = "object" THEN EffectsOfMembers(ast.m, 1)
  ELSE IF ast.t = "array" THEN EffectsOfItems(ast.items, 1)
  ELSE <<>>
EffectsOfMembers(m, i) ==
  IF i > Len(m) THEN <<>> ELSE Effects(m[i].v) \o EffectsOfMembers(m, i + 1)
EffectsOfItems(items, i) ==
  IF i > Len(items) THEN <<>> ELSE Effects(items[i]) \o EffectsOfItems(items, i + 1)

\* What the environment makes of the identifier and of the call:
\*   ident: "unbound" (ReferenceError) or "undefined" (the global `undefined`)
\*   call:  "exit" (the callee ends the process), "throw", or "value"
EvalEnvs == [ident : {"unbound", "undefined"}, call : {"exit", "throw", "value"}]

\* does the node stop the evaluation
Stops(node, env) ==
  \/ node = "ident" /\ env.ident = "unbound"
  \/ node = "call" /\ env.call \in {"exit", "throw"}

\* the index of the first node that stops the evaluation, 0 when none does
FirstStop(effs, env) ==
  IF \E i \in 1..Len(effs) : Stops(effs[i], env)
    THEN CHOOSE i \in 1..Len(effs) :
           Stops(effs[i], env) /\ \A j \in 1..(i - 1) : ~Stops(effs[j], env)
    ELSE 0

\* the value of an evaluated expression; a call that returns gives the clock
RECURSIVE Value(_, _, _)
Value(ast, env, now) ==
  IF ast.t = "ident" THEN Undefined
  ELSE IF ast.t = "call" THEN Num(now)
  ELSE IF ast.t = "object"
    THEN Obj([i \in 1..Len(ast.m) |-> [k |-> ast.m[i].k, v |-> Value(ast.m[i].v, env, now)]])
  ELSE IF ast.t = "array"
    THEN Arr([i \in 1..Len(ast.items) |-> Value(ast.items[i], env, now)])
  ELSE ast

\* the evaluation of the compiled expression up to its first stop:
\* [result, v, ran, called]; ran: an identifier or a call of the text was
\* evaluated; called: a call of the text was made
RunTo(ast, effs, stopAt, env, now) ==
  IF stopAt = 0
    THEN [result |-> "value", v |-> Value(ast, env, now), ran |-> Len(effs) > 0,
          called |-> \E i \in 1..Len(effs) : effs[i] = "call"]
    ELSE [result |-> IF effs[stopAt] = "call" /\ env.call = "exit" THEN "exit" ELSE "throw",
          v |-> Undefined, ran |-> TRUE,
          called |-> \E i \in 1..stopAt : effs[i] = "call"]

Run(ast, effs, env, now) == RunTo(ast, effs, FirstStop(effs, env), env, now)

EvalParsed(p, env, now) ==
  IF ~p.ok THEN [result |-> "throw", v |-> Undefined, ran |-> FALSE, called |-> FALSE]
  ELSE Run(p.v, Effects(p.v), env, now)

\* Function(use strict, return (text))(): the text is compiled and run; the
\* result is "value", "throw" (SyntaxError or an exception of the evaluation)
\* or "exit" (the evaluation ended the process)
EvalFunction(text, env, now) == EvalParsed(ParseText(text, FALSE), env, now)

NoParse == [error |-> "none", value |-> Undefined, method |-> "none", exit |-> FALSE,
            ran |-> FALSE, called |-> FALSE]

\* lines 89-95: the fallback
FromEval(e) ==
  IF e.result = "value"
    THEN [error |-> "none", value |-> e.v, method |-> "eval", exit |-> FALSE,
          ran |-> e.ran, called |-> e.called]
  ELSE IF e.result = "throw"
    THEN [error |-> "Failed to parse object", value |-> Undefined, method |-> "none",
          exit |-> FALSE, ran |-> e.ran, called |-> e.called]
  ELSE [error |-> "none", value |-> Undefined, method |-> "none", exit |-> TRUE,
        ran |-> TRUE, called |-> TRUE]

\* lines 85-87: strict JSON first
FromJson(j, text, env, now) ==
  IF j.ok THEN [error |-> "none", value |-> j.v, method |-> "json", exit |-> FALSE,
                ran |-> FALSE, called |-> FALSE]
  ELSE FromEval(EvalFunction(text, env, now))

\* tryParseObject(text): JSON.parse first, Function() second.  `exit` is not a
\* return of the function: the evaluated text ended the process.
tryParseObject(text, env, now) == FromJson(ParseText(text, TRUE), text, env, now)

-----------------------------------------------------------------------------
(* Files *)

\* a path is the sequence of the strings it is concatenated from
OutPath == <<"data/kyiv.json">>
\* line 40: const tmp = file + '.tmp'
\* a write straight onto the output path
InPlace(file) == file

\* one temporary path for every output path
SharedTmp(file) == <<"data/.tmp">>

\* line 40: the sibling path the text is written to
TmpPath(file) == file \o <<".tmp">>
Paths == {OutPath, TmpPath(OutPath)}

Absent == [kind |-> "absent"]
\* a file holding a whole text, and the file writeFileSync has opened and
\* truncated but not yet written the text to
FileOf(text) == [kind |-> "file", text |-> text, complete |-> TRUE]
Truncated == [kind |-> "file", text |-> [json |-> Null, pretty |-> FALSE], complete |-> FALSE]

\* fs.renameSync(from, to)
renameSync(files, from, to) ==
  IF from = to THEN files
  ELSE [p \in DOMAIN files |-> IF p = to THEN files[from] ELSE IF p = from THEN Absent ELSE files[p]]

\* JSON.stringify of a value: undefined members are left out, undefined items
\* become null
RECURSIVE ToJson(_), JsonMembers(_, _)
ToJson(v) ==
  IF v.t = "object" THEN Obj(JsonMembers(v.m, 1))
  ELSE IF v.t = "array"
    THEN Arr([i \in 1..Len(v.items) |->
                IF v.items[i].t = "undefined" THEN Null ELSE ToJson(v.items[i])])
  ELSE v
JsonMembers(m, i) ==
  IF i > Len(m) THEN <<>>
  ELSE IF m[i].v.t = "undefined" THEN JsonMembers(m, i + 1)
  ELSE <<[k |-> m[i].k, v |-> ToJson(m[i].v)]>> \o JsonMembers(m, i + 1)

\* JSON.stringify throws TypeError on a BigInt
RECURSIVE HasBigInt(_)
HasBigInt(v) ==
  \/ v.t = "bigint"
  \/ v.t = "object" /\ \E i \in 1..Len(v.m) : HasBigInt(v.m[i].v)
  \/ v.t = "array" /\ \E i \in 1..Len(v.items) : HasBigInt(v.items[i])

\* JSON.stringify(obj) or JSON.stringify(obj, null, 2): [throws, text]; the text
\* is kept as the document a JSON parser reads from it and its layout
Stringify(obj, pretty) ==
  IF HasBigInt(obj.data) THEN [throws |-> TRUE, text |-> [json |-> Null, pretty |-> pretty]]
  ELSE [throws |-> FALSE,
        text |-> [json |-> [obj EXCEPT !.data = ToJson(obj.data)], pretty |-> pretty]]

\* loadExisting(file): the parsed document, null when the file is missing or
\* does not hold a complete JSON text
loadExisting(files, file) ==
  IF files[file].kind = "file" /\ files[file].complete THEN files[file].text.json ELSE Null

-----------------------------------------------------------------------------
(* Document Merger *)

sha256(data) == [t |-> "sha256", of |-> data]

\* data/_template.json as the repository ships it
TemplateFile ==
  [regionId |-> Null, regionName |-> Null, regionType |-> Null, lastUpdated |-> Null,
   data |-> Arr(<<>>),
   lastUpdateStatus |-> [status |-> "idle", ok |-> TRUE, code |-> Null, message |-> Null,
                         at |-> Null, attempt |-> 0],
   meta |-> [schemaVersion |-> "1.0.0", fileCreated |-> Null, timezone |-> "Europe/Kyiv",
             source |-> [type |-> "proxy", upstream |-> Null, notes |-> Null],
             ttlSeconds |-> 300, nextScheduledFetch |-> Null, etag |-> Null,
             contentHash |-> Null, dataEmpty |-> TRUE, dataEmptyReason |-> Msg("initialized")]]

\* a baseline that claims to hold data: dataEmpty false and no reason
loadTemplateFilled(regionId, upstream, now, tpl) ==
  [regionId |-> regionId, regionName |-> Null, regionType |-> Null,
   lastUpdated |-> Null, data |-> Arr(<<>>),
   lastUpdateStatus |-> [status |-> "idle", ok |-> TRUE, code |-> Null,
                         message |-> Null, at |-> Null, attempt |-> 0],
   meta |-> [schemaVersion |-> "1.0.0", fileCreated |-> Iso(now),
             timezone |-> "Europe/Kyiv",
             source |-> [type |-> "proxy", upstream |-> upstream,
                         notes |-> Msg("Initialized by parser")],
             ttlSeconds |-> 300, nextScheduledFetch |-> Null, etag |-> Null,
             contentHash |-> Null, dataEmpty |-> FALSE, dataEmptyReason |-> Null]]

\* loadTemplateBase(regionId, upstream); tpl is the parsed _template.json, null
\* when it is unavailable; now is the reading of isoNow() at line 107
loadTemplateBase(regionId, upstream, now, tpl) ==
  LET template ==
        IF tpl # Null THEN tpl
        ELSE [regionId |-> regionId, regionName |-> Null, regionType |-> Null,
              lastUpdated |-> Null, data |-> Arr(<<>>),
              lastUpdateStatus |-> [status |-> "idle", ok |-> TRUE, code |-> Null,
                                    message |-> Null, at |-> Null, attempt |-> 0],
              meta |-> [schemaVersion |-> "1.0.0", fileCreated |-> Iso(now),
                        timezone |-> "Europe/Kyiv",
                        source |-> [type |-> "proxy", upstream |-> upstream,
                                    notes |-> Msg("Initialized by parser")],
                        ttlSeconds |-> 300, nextScheduledFetch |-> Null, etag |-> Null,
                        contentHash |-> Null, dataEmpty |-> TRUE,
                        dataEmptyReason |-> Msg("initialized")]]
  IN [template EXCEPT
        !.regionId = IF Truthy(regionId) THEN regionId ELSE template.regionId,
        !.meta.source.upstream = IF Truthy(upstream) THEN upstream
                                 ELSE template.meta.source.upstream,
        !.meta.fileCreated = IF Truthy(template.meta.fileCreated)
                               THEN template.meta.fileCreated ELSE Iso(now)]

\* a counter that forgets the document read
noPrevAttempt(doc) == 0

\* lines 147 and 364: the attempt of the document read, 0 without one
prevAttempt(doc) == IF doc # Null THEN doc.lastUpdateStatus.attempt ELSE 0

\* a status that reports every failure as a crash
ErrorStatusCrashed(code, message, now, attempt) ==
  [status |-> "error", ok |-> FALSE, code |-> Num(500), message |-> message,
   at |-> Iso(now), attempt |-> attempt]

\* a status of an error that carries no message
ErrorStatusSilent(code, message, now, attempt) ==
  [status |-> "error", ok |-> FALSE, code |-> Num(code), message |-> Null,
   at |-> Iso(now), attempt |-> attempt]

\* lines 148-155
ErrorStatus(code, message, now, attempt) ==
  [status |-> "error", ok |-> FALSE, code |-> Num(code), message |-> message,
   at |-> Iso(now), attempt |-> attempt]

\* an error document that starts from empty data instead of the data read
StatusOnCleared(base, upstream, code, message, now) ==
  [base EXCEPT
     !.data = Arr(<<>>),
     !.lastUpdated = Null,
     !.lastUpdateStatus = ErrorStatus(code, message, now, prevAttempt(base) + 1),
     !.meta.fileCreated = IF Truthy(base.meta.fileCreated)
                            THEN base.meta.fileCreated ELSE Iso(now),
     !.meta.source.upstream = IF Truthy(upstream) THEN upstream
                              ELSE base.meta.source.upstream]

\* lines 148-165 on the base document
StatusOnBase(base, upstream, code, message, now) ==
  [base EXCEPT
     !.lastUpdateStatus = ErrorStatus(code, message, now, prevAttempt(base) + 1),
     !.meta.fileCreated = IF Truthy(base.meta.fileCreated)
                            THEN base.meta.fileCreated ELSE Iso(now),
     !.meta.source.upstream = IF Truthy(upstream) THEN upstream
                              ELSE base.meta.source.upstream]

\* updateStatusOnError(existingObj, regionId, upstream, code, message); now is
\* the reading of isoNow() at line 145, tnow the one inside loadTemplateBase
updateStatusOnError(existingObj, regionId, upstream, code, message, now, tnow, tpl) ==
  StatusOnBase(IF existingObj # Null THEN existingObj
               ELSE loadTemplateBase(regionId, upstream, tnow, tpl),
               upstream, code, message, now)

\* normalize(regionId, upstream, rawObj); now is the reading of isoNow() at
\* line 254.  hasOwnProperty.call throws TypeError on null and undefined;
\* extractGroupsWithIso (line 262) throws on an entry it cannot convert to a
\* string.
normalizeThrows(rawObj) ==
  \/ rawObj.t \in {"null", "undefined"}
  \/ HasOwn(rawObj, K_data) /\ extractGroupsThrows(Get(rawObj, K_data))

\* lines 275-306: the document of the normalized data
NormalizedDoc(regionId, upstream, dataOut, dataEmptyReason, rawFactIncluded, now) ==
  [regionId |-> regionId, regionName |-> Null, regionType |-> Null,
   lastUpdated |-> Iso(now), data |-> dataOut,
   lastUpdateStatus |-> [status |-> "parsed", ok |-> TRUE, code |-> Num(200),
                         message |-> Null, at |-> Iso(now), attempt |-> 1],
   meta |-> [schemaVersion |-> "1.0.0", fileCreated |-> Iso(now),
             timezone |-> "Europe/Kyiv",
             source |-> [type |-> "proxy", upstream |-> upstream,
                         notes |-> Msg("Extracted from DisconSchedule.fact in upstream HTML")],
             ttlSeconds |-> 300, nextScheduledFetch |-> Null, etag |-> Null,
             contentHash |-> Null, dataEmpty |-> FALSE,
             dataEmptyReason |-> dataEmptyReason,
             rawFactIncluded |-> rawFactIncluded]]

\* a normalizer that also extracts the groups of a value without a data field
NormalizeWhole(regionId, upstream, rawObj, dataField, groups, now) ==
  IF dataField # Undefined /\ dataField # Null
    THEN IF groups # Null
           THEN NormalizedDoc(regionId, upstream, groups, Null, FALSE, now)
           ELSE NormalizedDoc(regionId, upstream, dataField,
                              Msg("stored-as-is-unrecognized-structure"), FALSE, now)
    ELSE NormalizedDoc(regionId, upstream,
                       IF extractGroupsWithIso(rawObj) # Null
                         THEN extractGroupsWithIso(rawObj) ELSE rawObj,
                       Msg("no-data-field-present"), dataField = Undefined, now)

\* a normalizer that gives no reason for a payload stored as it is
NormalizeUnflagged(regionId, upstream, rawObj, dataField, groups, now) ==
  IF dataField # Undefined /\ dataField # Null
    THEN NormalizedDoc(regionId, upstream, IF groups # Null THEN groups ELSE dataField,
                       Null, FALSE, now)
    ELSE NormalizedDoc(regionId, upstream, rawObj, Msg("no-data-field-present"),
                       dataField = Undefined, now)

\* lines 260-273 for the data field found and the groups extracted from it
NormalizeField(regionId, upstream, rawObj, dataField, groups, now) ==
  IF dataField # Undefined /\ dataField # Null
    THEN IF groups # Null
           THEN NormalizedDoc(regionId, upstream, groups, Null, FALSE, now)
           ELSE NormalizedDoc(regionId, upstream, dataField,
                              Msg("stored-as-is-unrecognized-structure"), FALSE, now)
    ELSE NormalizedDoc(regionId, upstream, rawObj, Msg("no-data-field-present"),
                       dataField = Undefined, now)

\* line 255
DataFieldOf(rawObj) == IF HasOwn(rawObj, K_data) THEN Get(rawObj, K_data) ELSE Undefined

normalize(regionId, upstream, rawObj, now) ==
  NormalizeField(regionId, upstream, rawObj, DataFieldOf(rawObj),
                 extractGroupsWithIso(DataFieldOf(rawObj)), now)

\* line 378: !data || (Array.isArray(data) ? data.length === 0
\*                                         : Object.keys(data).length === 0)
IsEmptyData(data) ==
  \/ ~Truthy(data)
  \/ data.t = "array" /\ Len(data.items) = 0
  \/ data.t = "object" /\ Len(data.m) = 0
  \/ data.t \in {"number", "boolean", "bigint"}

\* a merge that stamps every document anew
fileCreatedFresh(prior, fresh) == fresh.meta.fileCreated

\* lines 361-363: the fileCreated of the document read, when it has one
fileCreatedOf(prior, fresh) ==
  IF prior # Null /\ Truthy(prior.meta.fileCreated)
    THEN prior.meta.fileCreated ELSE fresh.meta.fileCreated

\* a merge that carries the lastUpdated of the document read
MergeKeepingLastUpdated(prior, outObj, jsonLike, now) ==
  [outObj EXCEPT
     !.lastUpdated = IF prior # Null THEN prior.lastUpdated ELSE outObj.lastUpdated,
     !.meta.fileCreated = fileCreatedOf(prior, outObj),
     !.lastUpdateStatus = [status |-> "parsed", ok |-> TRUE, code |-> Num(200),
                           message |-> Null, at |-> Iso(now),
                           attempt |-> prevAttempt(prior) + 1],
     !.meta.contentHash = sha256(jsonLike),
     !.meta.dataEmpty = IsEmptyData(outObj.data),
     !.meta.dataEmptyReason = IF IsEmptyData(outObj.data)
                                   /\ ~Truthy(outObj.meta.dataEmptyReason)
                                THEN Msg("empty-data-after-parse")
                                ELSE outObj.meta.dataEmptyReason]

\* a merge that keeps the names of the document read
MergeKeepingNames(prior, outObj, jsonLike, now) ==
  [outObj EXCEPT
     !.regionName = IF prior # Null THEN prior.regionName ELSE outObj.regionName,
     !.regionType = IF prior # Null THEN prior.regionType ELSE outObj.regionType,
     !.meta.fileCreated = fileCreatedOf(prior, outObj),
     !.lastUpdateStatus = [status |-> "parsed", ok |-> TRUE, code |-> Num(200),
                           message |-> Null, at |-> Iso(now),
                           attempt |-> prevAttempt(prior) + 1],
     !.meta.contentHash = sha256(jsonLike),
     !.meta.dataEmpty = IsEmptyData(outObj.data),
     !.meta.dataEmptyReason = IF IsEmptyData(outObj.data)
                                   /\ ~Truthy(outObj.meta.dataEmptyReason)
                                THEN Msg("empty-data-after-parse")
                                ELSE outObj.meta.dataEmptyReason]

\* lines 360-381 of main on the normalized document
MergeInto(prior, outObj, jsonLike, now) ==
  [outObj EXCEPT
     !.meta.fileCreated = fileCreatedOf(prior, outObj),
     !.lastUpdateStatus = [status |-> "parsed", ok |-> TRUE, code |-> Num(200),
                           message |-> Null, at |-> Iso(now),
                           attempt |-> prevAttempt(prior) + 1],
     !.meta.contentHash = sha256(jsonLike),
     !.meta.dataEmpty = IsEmptyData(outObj.data),
     !.meta.dataEmptyReason = IF IsEmptyData(outObj.data)
                                   /\ ~Truthy(outObj.meta.dataEmptyReason)
                                THEN Msg("empty-data-after-parse")
                                ELSE outObj.meta.dataEmptyReason]

\* lines 356-381 of main: the document of a successful parse; now is the
\* reading of isoNow() at line 356, nnow the one inside normalize
mergeParsed(prior, regionId, upstream, jsonLike, value, now, nnow) ==
  MergeInto(prior, normalize(regionId, upstream, value, nnow), jsonLike, now)

-----------------------------------------------------------------------------
(* Invocations *)

\* the pages an invocation may find at args.input
Htmls ==
  { <<Punct>>,                                                   \* no marker
    <<MARKER, WS, Punct>>,                                       \* no brace after it
    <<MARKER, WS, "{", "\"note\":", "{", "}">>,                  \* brace never closed
    <<MARKER, "{", Punct, "}", Punct>>,                          \* not an object literal
    <<Punct, MARKER, WS, "{", "}", Punct>>,                      \* {}
    <<MARKER, "{", "\"data\":", "{", "\"GPV1.1\":", "[{date,start:2:00,end}]", "}", "}", Punct>>,
    <<MARKER, WS, "{", "\"GPV1.1\":", "[{date,start:2:00,end}]", "}", Punct>>,
    <<MARKER, "{", "\"data\":", "{", "}", "}">>,
    <<MARKER, "{", "\"data\":", "{", "\"note\":", "1", "}", "}">>,
    <<MARKER, "{", "\"data\":", "null", "}">>,
    <<MARKER, "{", "data:", "{", "\"GPV1.1\":", "[{date,start:2:00,end}]", "}", "}">>,
    <<MARKER, "{", "\"note\":", "1n", "}">>,
    <<MARKER, "{", "\"note\":", "foo", "}">>,
    <<MARKER, "{", "\"note\":", "run()", "}">> }

\* what fs.existsSync and fs.readFileSync find at args.input
Inputs ==
  {[exists |-> FALSE, readable |-> FALSE, html |-> <<>>],
   [exists |-> TRUE, readable |-> FALSE, html |-> <<>>]}
  \cup {[exists |-> TRUE, readable |-> TRUE, html |-> h] : h \in Htmls}

RegionId == Msg("kyiv")
Upstreams == {Null, Url("https://upstream/ua/shutdowns")}

\* parseArgs(process.argv) of a command line that names region, input and
\* output; scripts/parse_regions.sh (line 53) always passes --pretty
ArgSets == [region : {RegionId}, output : {OutPath}, upstream : Upstreams, pretty : {TRUE}]
NoArgs == [region |-> RegionId, output |-> OutPath, upstream |-> Null, pretty |-> FALSE]
NoInput == [exists |-> FALSE, readable |-> FALSE, html |-> <<>>]
NoText == [json |-> Null, pretty |-> FALSE]

\* no driver runs, no other invocation runs
NoDriver == [pc |-> "none", files |-> 0, sources |-> "unset", i |-> 0, processed |-> 0,
             success |-> 0, failed |-> 0, invoked |-> <<>>, status |-> 0]
NoPeer == [pc |-> "none", output |-> <<>>, existing |-> Null, pending |-> NoText,
           start |-> <<>>]

\* exit statuses: process.exit(2) of line 320, the status an evaluated call
\* of the input hands to process.exit, the status of a killed process
UsageExit == 2
HijackExit == 3
KilledExit == 128 + 9

\* isoNow(): the readings a call may return when the clock last showed c
Readings(c) == {n \in {c, c + 1} : n <= MaxClock}

\* the parsed data/_template.json, null when it cannot be read
Templates == {Null, TemplateFile}

Init ==
  /\ hourCycle \in HourCycles
  /\ cmd \in ArgSets
  /\ templateJson \in Templates
  /\ fs = [p \in Paths |-> Absent]
  /\ clock = 1
  /\ runs = 0
  /\ pc = "idle"
  /\ args = NoArgs
  /\ input = NoInput
  /\ ext = NoExt
  /\ parsed = NoParse
  /\ existing = Null
  /\ pending = NoText
  /\ thrown = FALSE
  /\ outcome = "none"
  /\ exitCode = 0
  /\ executed = FALSE
  /\ writes = 0
  /\ drv = NoDriver
  /\ peer = NoPeer

\* node scripts/parse_fact.js --region .. --in .. --out .. [--upstream ..] [--pretty]
Invoke ==
  /\ pc = "idle"
  /\ runs < MaxRuns
  /\ args' = cmd
  /\ \E inp \in Inputs : input' = inp
  /\ runs' = runs + 1
  /\ pc' = "main"
  /\ outcome' = "running"
  /\ UNCHANGED <<fs, clock, ext, parsed, existing, pending, thrown, exitCode, executed>>
  /\ UNCHANGED <<hourCycle, cmd, templateJson, drv, peer, writes>>

\* lines 318-321: a command line without --region, --in or --out
InvokeUsage ==
  /\ pc = "idle"
  /\ runs < MaxRuns
  /\ runs' = runs + 1
  /\ pc' = "exited"
  /\ exitCode' = UsageExit
  /\ outcome' = "usage"
  /\ UNCHANGED <<fs, clock, args, input, ext, parsed, existing, pending, thrown, executed>>
  /\ UNCHANGED <<hourCycle, cmd, templateJson, drv, peer, writes>>

\* the caller receives the exit status; the memory of the process is gone
Reap ==
  /\ pc = "exited"
  /\ outcome # "killed"
  /\ pc' = "idle"
  /\ outcome' = "none"
  /\ exitCode' = 0
  /\ args' = NoArgs
  /\ input' = NoInput
  /\ ext' = NoExt
  /\ parsed' = NoParse
  /\ existing' = Null
  /\ pending' = NoText
  /\ thrown' = FALSE
  /\ executed' = FALSE
  /\ UNCHANGED <<fs, clock, runs>>
  /\ writes' = 0
  /\ UNCHANGED <<hourCycle, cmd, templateJson, drv, peer>>

\* the error branches of main and the handler: load the existing document,
\* update its status, serialize it and enter writeFileAtomic
FailWith(code, message, kind) ==
  \E now \in Readings(clock) :
    \E tnow \in Readings(now) :
      /\ existing' = loadExisting(fs, args.output)
      /\ pending' = Stringify(updateStatusOnError(existing', args.region, args.upstream,
                                                  code, Msg(message), now, tnow,
                                                  templateJson), args.pretty).text
      /\ clock' = IF existing' = Null THEN tnow ELSE now
      /\ outcome' = kind
      /\ pc' = "write"

\* lines 326-333
CheckInput ==
  /\ pc = "main"
  /\ IF ~input.exists
       THEN FailWith(404, "Input not found", "InputNotFound")
       ELSE pc' = "locate" /\ UNCHANGED <<existing, pending, clock, outcome>>
  /\ UNCHANGED <<fs, runs, args, input, ext, parsed, thrown, exitCode, executed>>
  /\ UNCHANGED <<hourCycle, cmd, templateJson, drv, peer, writes>>

ErrorKind(error) ==
  CASE error = "Marker not found" -> "MarkerNotFound"
    [] error = "Expected brace after marker" -> "UnexpectedToken"
    [] error = "Unbalanced braces while extracting fact object" -> "UnbalancedBraces"
    [] OTHER -> "StructuralParseError"

\* lines 335-344; readFileSync throws on a path that cannot be read
Locate ==
  /\ pc = "locate"
  /\ IF ~input.readable
       THEN /\ thrown' = TRUE
            /\ pc' = "handler"
            /\ UNCHANGED <<ext, existing, pending, clock, outcome>>
       ELSE /\ ext' = extractFact(input.html)
            /\ thrown' = FALSE
            /\ IF ext'.error # "none"
                 THEN FailWith(422, ext'.error, ErrorKind(ext'.error))
                 ELSE pc' = "parse" /\ UNCHANGED <<existing, pending, clock, outcome>>
  /\ UNCHANGED <<fs, runs, args, input, parsed, exitCode, executed>>
  /\ UNCHANGED <<hourCycle, cmd, templateJson, drv, peer, writes>>

\* lines 346-354
Parse ==
  /\ pc = "parse"
  /\ \E env \in EvalEnvs : parsed' = tryParseObject(ext.jsonLike, env, clock)
  /\ executed' = parsed'.ran
  /\ IF parsed'.exit
       THEN /\ pc' = "exited"
            /\ exitCode' = HijackExit
            /\ outcome' = "hijacked"
            /\ UNCHANGED <<existing, pending, clock>>
       ELSE /\ IF parsed'.error # "none"
                 THEN FailWith(422, parsed'.error, ErrorKind(parsed'.error))
                 ELSE pc' = "normalize" /\ UNCHANGED <<existing, pending, clock, outcome>>
            /\ UNCHANGED exitCode
  /\ UNCHANGED <<fs, runs, args, input, ext, thrown>>
  /\ UNCHANGED <<hourCycle, cmd, templateJson, drv, peer, writes>>

\* lines 356-383; hasOwnProperty.call and JSON.stringify may throw
Normalize ==
  /\ pc = "normalize"
  /\ IF normalizeThrows(parsed.value)
       THEN /\ thrown' = TRUE
            /\ pc' = "handler"
            /\ UNCHANGED <<existing, pending, clock, outcome>>
       ELSE \E now \in Readings(clock) : \E nnow \in Readings(now) :
              \E js \in {Stringify(mergeParsed(loadExisting(fs, args.output), args.region,
                                               args.upstream, ext.jsonLike, parsed.value,
                                               now, nnow), args.pretty)} :
                 /\ existing' = loadExisting(fs, args.output)
                 /\ clock' = nnow
                 /\ IF js.throws
                      THEN /\ thrown' = TRUE
                           /\ pc' = "handler"
                           /\ UNCHANGED <<pending, outcome>>
                      ELSE /\ pending' = js.text
                           /\ outcome' = "success"
                           /\ pc' = "write"
                           /\ thrown' = FALSE
  /\ UNCHANGED <<fs, runs, args, input, ext, parsed, exitCode, executed>>
  /\ UNCHANGED <<hourCycle, cmd, templateJson, drv, peer, writes>>

\* lines 391-403: the handler of an exception thrown by main
Handler ==
  /\ pc = "handler"
  /\ FailWith(500, "parse_fact crashed", "InternalFault")
  /\ thrown' = FALSE
  /\ UNCHANGED <<fs, runs, args, input, ext, parsed, exitCode, executed>>
  /\ UNCHANGED <<hourCycle, cmd, templateJson, drv, peer, writes>>

\* line 41, fs.writeFileSync(tmp, content): the file is opened and truncated
WriteOpen ==
  /\ pc = "write"
  /\ fs' = [fs EXCEPT ![TmpPath(args.output)] = Truncated]
  /\ pc' = "writing"
  /\ UNCHANGED <<clock, runs, args, input, ext, parsed, existing, pending, thrown, outcome,
                 exitCode, executed>>
  /\ UNCHANGED <<hourCycle, cmd, templateJson, drv, peer, writes>>

\* line 41: the text is written
WriteDone ==
  /\ pc = "writing"
  /\ fs' = [fs EXCEPT ![TmpPath(args.output)] = FileOf(pending)]
  /\ pc' = "rename"
  /\ UNCHANGED <<clock, runs, args, input, ext, parsed, existing, pending, thrown, outcome,
                 exitCode, executed>>
  /\ UNCHANGED <<hourCycle, cmd, templateJson, drv, peer, writes>>

\* line 42 and the end of the process: process.exit(0) of lines 332, 343, 353
\* and 405, or the return of main
Rename ==
  /\ pc = "rename"
  /\ fs' = renameSync(fs, TmpPath(args.output), args.output)
  /\ pc' = "exited"
  /\ exitCode' = 0
  /\ UNCHANGED <<clock, runs, args, input, ext, parsed, existing, pending, thrown, outcome, executed>>
  /\ writes' = writes + 1
  /\ UNCHANGED <<hourCycle, cmd, templateJson, drv, peer>>

\* the machine stops inside writeFileAtomic: nothing runs after it
Kill ==
  /\ pc \in {"write", "writing", "rename"}
  /\ pc' = "exited"
  /\ exitCode' = KilledExit
  /\ outcome' = "killed"
  /\ UNCHANGED <<fs, clock, runs, args, input, ext, parsed, existing, pending, thrown, executed>>
  /\ UNCHANGED <<hourCycle, cmd, templateJson, drv, peer, writes>>

\* time passes between invocations
Tick ==
  /\ pc = "idle"
  /\ clock < MaxClock
  /\ clock' = clock + 1
  /\ UNCHANGED <<fs, runs, pc, args, input, ext, parsed, existing, pending, thrown, outcome,
                 exitCode, executed>>
  /\ UNCHANGED <<hourCycle, cmd, templateJson, drv, peer, writes>>

\* the driver's command line and the repository's template stay as they are
\* throughout
Next ==
  \/ Invoke
  \/ InvokeUsage
  \/ Reap
  \/ CheckInput
  \/ Locate
  \/ Parse
  \/ Normalize
  \/ Handler
  \/ WriteOpen
  \/ WriteDone
  \/ Rename
  \/ Kill
  \/ Tick

Spec == Init /\ [][Next]_vars

-----------------------------------------------------------------------------
(* Properties.  An invocation that has ended still shows its locals (its    *)
(* input, the document it read, the text it wrote) until its caller takes   *)
(* its exit status, so each property compares, in the state where the      *)
(* invocation has ended, the document it read with the document a reader   *)
(* of the output path now finds.                                           *)

\* the document a reader of the output path finds, null when there is none
Committed == loadExisting(fs, OutPath)

\* the invocation ran to its end and wrote its document
Wrote == pc = "exited" /\ exitCode = 0 /\ outcome \notin {"usage", "hijacked", "killed"}

FailureOutcomes ==
  {"InputNotFound", "MarkerNotFound", "UnexpectedToken", "UnbalancedBraces",
   "StructuralParseError", "InternalFault"}

\* C1: an invocation that ends in a failure outcome and had read a document
\* writes a document with the data, the lastUpdated and the meta.contentHash
\* of the document it read, with lastUpdateStatus.status "error" and ok false
C1_NonDestructiveFailure ==
  (Wrote /\ outcome \in FailureOutcomes /\ existing # Null) =>
     /\ Committed # Null
     /\ Committed.data = existing.data
     /\ Committed.lastUpdated = existing.lastUpdated
     /\ Committed.meta.contentHash = existing.meta.contentHash
     /\ Committed.lastUpdateStatus.status = "error"
     /\ Committed.lastUpdateStatus.ok = FALSE

\* a failure after a success: the document still holds the parsed data, its
\* lastUpdated and its hash
C1_Witness ==
  /\ Wrote
  /\ outcome = "MarkerNotFound"
  /\ existing # Null
  /\ existing.lastUpdateStatus.status = "parsed"
  /\ existing.data # Arr(<<>>)
  /\ Committed.data = existing.data
  /\ Committed.lastUpdated = Iso(1)
  /\ Committed.lastUpdateStatus.at = Iso(2)

C3_FileCreatedOnce ==
  Wrote =>
     /\ Committed # Null
     /\ Committed.meta.fileCreated # Null
     /\ existing = Null => Committed.meta.fileCreated \in {Iso(n) : n \in 1..clock}
     /\ existing # Null => Committed.meta.fileCreated = existing.meta.fileCreated

\* a successful invocation at a later time than the creation of the document
C3_Witness ==
  /\ Wrote
  /\ outcome = "success"
  /\ existing # Null
  /\ Committed.meta.fileCreated = Iso(1)
  /\ Committed.lastUpdateStatus.at = Iso(2)
  /\ Committed.lastUpdated = Iso(2)

\* the invocation parsed successfully the span that the document it found
\* had been parsed from by the invocation before it (the pages of Htmls that
\* parse differ in their spans, so the same span is the same page)
SameInputAgain ==
  /\ Wrote
  /\ outcome = "success"
  /\ existing # Null
  /\ existing.lastUpdateStatus.status = "parsed"
  /\ existing.meta.contentHash = sha256(ext.jsonLike)

EmptyData(data) == data \in {Null, Arr(<<>>), Obj(<<>>)}

\* C5: no invocation that found a document with non-empty data writes a
\* document with empty data
C5_NeverEmptiesData ==
  (Wrote /\ existing # Null /\ ~EmptyData(existing.data)) => ~EmptyData(Committed.data)

\* C6: the fallback never evaluates an identifier or a call of the span: a
\* span that holds one is rejected, and a value the fallback returns was
\* built without evaluating any
C6_FallbackNeverExecutes ==
  /\ ~executed
  /\ outcome # "hijacked"
  /\ parsed.method = "eval" => ~parsed.ran

\* the payload the claim expects of a value without a data field: its groups
\* in the {date, startLocal, endLocal} shape when it has recognized groups
NormalizedPayload(value) ==
  IF extractGroupsWithIso(value) # Null THEN extractGroupsWithIso(value) ELSE ToJson(value)

NoDataField == Wrote /\ outcome = "success" /\ ~HasOwn(parsed.value, K_data)

\* C7, as the claim states it: a value without a data field is normalized as
\* the payload, its recognized groups in the {date, startLocal, endLocal}
\* shape, and dataEmptyReason is no-data-field-present
C7_WholeValueNormalized ==
  NoDataField =>
     /\ Committed.data = NormalizedPayload(parsed.value)
     /\ Committed.meta.dataEmptyReason = Msg("no-data-field-present")

\* C7, amended: a value without a data field is stored as it is, its entries
\* not reshaped, with dataEmptyReason no-data-field-present and
\* rawFactIncluded true
C7_WholeValueStoredAsIs ==
  NoDataField =>
     /\ Committed.data = ToJson(parsed.value)
     /\ Committed.meta.dataEmptyReason = Msg("no-data-field-present")
     /\ Committed.meta.rawFactIncluded = TRUE

\* a value whose only member is a group of recognized entries
C7_Witness ==
  /\ NoDataField
  /\ HasOwn(parsed.value, K_gpv)
  /\ extractGroupsWithIso(parsed.value) # Null
  /\ Committed.data = parsed.value
  /\ Committed.meta.dataEmptyReason = Msg("no-data-field-present")

\* C8: the text goes to the sibling path and is renamed onto the output path:
\* the output path never holds a partial text; while the invocation writes,
\* and when the machine stops in the middle, a reader finds the document the
\* invocation found; once the invocation has written, the whole new text
C8_AtomicWrite ==
  /\ fs[OutPath].kind = "file" => fs[OutPath].complete
  /\ pc \in {"write", "writing", "rename"} => Committed = existing
  /\ (pc = "exited" /\ outcome = "killed") => Committed = existing
  /\ Wrote => fs[OutPath] = FileOf(pending)
  /\ pc \in {"writing", "rename"} => fs[TmpPath(OutPath)].kind = "file"

\* the machine stopped while the sibling file was partial: the document of
\* the earlier invocation is still whole
C8_Witness ==
  /\ pc = "exited"
  /\ outcome = "killed"
  /\ fs[TmpPath(OutPath)] = Truncated
  /\ existing # Null
  /\ Committed = existing
  /\ pending.json # existing

\* the code the claim expects of the invocation from what it met
ExpectedCode ==
  IF ~input.exists THEN 404
  ELSE IF ~input.readable THEN 500
  ELSE IF ext.error # "none" \/ parsed.error # "none" THEN 422
  ELSE IF outcome = "InternalFault" THEN 500
  ELSE 200

\* C9: a missing input writes code 404, a locator or parse failure 422, any
\* other fault 500, each with status error and ok false; a success writes 200
\* with status parsed
C9_StageCodes ==
  Wrote =>
     /\ Committed.lastUpdateStatus.code = Num(ExpectedCode)
     /\ outcome = "success" <=> ExpectedCode = 200
     /\ Committed.lastUpdateStatus.status = IF ExpectedCode = 200 THEN "parsed" ELSE "error"
     /\ Committed.lastUpdateStatus.ok = (ExpectedCode = 200)

\* a fault inside the processing of a page that parsed
C9_Witness ==
  /\ Wrote
  /\ outcome = "InternalFault"
  /\ input.readable
  /\ parsed.method = "eval"
  /\ Committed.lastUpdateStatus.code = Num(500)
  /\ Committed.lastUpdateStatus.status = "error"

\* C10: every invocation that the machine lets end, on a complete command
\* line, ends with exit status 0
C10_AlwaysExitsZero ==
  (pc = "exited" /\ outcome \notin {"usage", "killed"}) => exitCode = 0

-----------------------------------------------------------------------------
(* The Literal Locator on every text: the invocation stands at line 335     *)
(* with a page drawn from all the texts of at most MaxText lexemes over     *)
(* the marker, a blank, the two braces, a double quote and another          *)
(* character.                                                               *)

LocatorAlphabet == {MARKER, WS, "{", "}", "\"", Punct}
LocatorTexts == UNION {[1..n -> LocatorAlphabet] : n \in 0..MaxText}

LocInit ==
  /\ hourCycle \in HourCycles
  /\ cmd = [region |-> RegionId, output |-> OutPath, upstream |-> Null, pretty |-> TRUE]
  /\ templateJson = Null
  /\ fs = [p \in Paths |-> Absent]
  /\ clock = 1
  /\ runs = 1
  /\ pc = "locate"
  /\ args = cmd
  /\ \E text \in LocatorTexts : input = [exists |-> TRUE, readable |-> TRUE, html |-> text]
  /\ ext = NoExt
  /\ parsed = NoParse
  /\ existing = Null
  /\ pending = NoText
  /\ thrown = FALSE
  /\ outcome = "running"
  /\ exitCode = 0
  /\ executed = FALSE
  /\ writes = 0
  /\ drv = NoDriver
  /\ peer = NoPeer

LocNext == Locate

LocSpec == LocInit /\ [][LocNext]_vars

\* the locator has returned
Located == pc # "locate"

\* number of lexemes equal to c among text[from..to]
CountOf(text, c, from, to) == Cardinality({j \in from..to : text[j] = c})

\* braces opened minus braces closed in text[from..to]
DepthAt(text, from, to) == CountOf(text, "{", from, to) - CountOf(text, "}", from, to)

\* position after the first marker, 0 when the marker does not occur
AfterMarker(text) ==
  IF \A i \in 1..Len(text) : text[i] # MARKER THEN 0
  ELSE 1 + CHOOSE i \in 1..Len(text) :
             text[i] = MARKER /\ \A j \in 1..(i - 1) : text[j] # MARKER

\* position of the first lexeme at or after `from` that is no blank, Len + 1
\* when there is none
FirstNonBlank(text, from) ==
  CHOOSE i \in from..(Len(text) + 1) :
    /\ i = Len(text) + 1 \/ text[i] # WS
    /\ \A j \in from..(i - 1) : text[j] = WS

\* the outcome the classification names for a text
ExpectedOutcome(text, a, b) ==
  IF a = 0 THEN "Marker not found"
  ELSE IF b > Len(text) \/ text[b] # "{" THEN "Expected brace after marker"
  ELSE IF \A e \in b..Len(text) : DepthAt(text, b, e) # 0
    THEN "Unbalanced braces while extracting fact object"
  ELSE "none"

ExpectedOutcomeOf(text, a) ==
  ExpectedOutcome(text, a, IF a = 0 THEN 0 ELSE FirstNonBlank(text, a))

\* C11: for every text the locator returns the marker-not-found error when
\* the marker does not occur, the unexpected-token error when the first
\* non-blank lexeme after it is no opening brace (or the text ends), the
\* unbalanced-braces error when the depth never returns to zero, and a span
\* otherwise: exactly one of the four
C11_LocatorClassification ==
  Located =>
     /\ ext.error = ExpectedOutcomeOf(input.html, AfterMarker(input.html))
     /\ ext.error \in {"none", "Marker not found", "Expected brace after marker",
                       "Unbalanced braces while extracting fact object"}
     /\ ext.error = "none" <=> ext.jsonLike # <<>>

\* blanks after the marker, then braces that never close
C11_Witness ==
  /\ Located
  /\ input.html = <<MARKER, WS, "{", "{", "}">>
  /\ ext.error = "Unbalanced braces while extracting fact object"

\* C12: a span the locator returns is the part of the text from the first
\* opening brace after the marker to the first closing brace at which the
\* depth, counted over every brace, is back at zero; it holds as many opening
\* as closing braces and no proper prefix of it does
C12_SpanExact ==
  (Located /\ ext.error = "none") =>
     /\ ext.startIndex = FirstNonBlank(input.html, AfterMarker(input.html))
     /\ input.html[ext.startIndex] = "{"
     /\ ext.jsonLike = SubSeq(input.html, ext.startIndex, ext.endIndex - 1)
     /\ input.html[ext.endIndex - 1] = "}"
     /\ DepthAt(input.html, ext.startIndex, ext.endIndex - 1) = 0
     /\ \A e \in ext.startIndex..(ext.endIndex - 2) :
          DepthAt(input.html, ext.startIndex, e) # 0

\* a quote does not hide the brace after it: the span ends inside the string
C12_Witness ==
  /\ Located
  /\ input.html = <<MARKER, "{", "\"", "}", "\"">>
  /\ ext.error = "none"
  /\ ext.jsonLike = <<"{", "\"", "}">>

-----------------------------------------------------------------------------
(* The normalizer on its own: an invocation that has located and parsed a   *)
(* fact of the shape {"data": {key: [entries]}} and goes on from line 356.  *)

MaxEntries == 2

DateChars(y, m, d) == Dec(y) \o <<"-">> \o pad2(m) \o <<"-">> \o pad2(d)
\* H:MM, or HH:MM when padded
TimeChars(h, mi, padded) == (IF padded THEN pad2(h) ELSE Dec(h)) \o <<":">> \o pad2(mi)

\* the days the clocks of Europe/Kyiv change in 2025, and a day of summer
SpringDay == DateChars(2025, 3, 30)
FallDay == DateChars(2025, 10, 26)
SummerDay == DateChars(2025, 6, 15)

EntryOf(date, start, end) ==
  Obj(<<[k |-> K_date, v |-> date], [k |-> K_start, v |-> start], [k |-> K_end, v |-> end]>>)

\* the intervals of a day with a change of clocks: before it, across it, after it
Slots ==
  { <<TimeChars(0, 30, FALSE), TimeChars(2, 30, FALSE)>>,
    <<TimeChars(2, 59, TRUE), TimeChars(4, 0, TRUE)>>,
    <<TimeChars(4, 0, FALSE), TimeChars(21, 30, FALSE)>>,
    <<TimeChars(21, 30, FALSE), TimeChars(22, 30, FALSE)>>,
    <<TimeChars(22, 30, FALSE), TimeChars(23, 0, FALSE)>> }

ScheduleEntries ==
  {EntryOf(Str(d), Str(sl[1]), Str(sl[2])) : d \in {SpringDay, FallDay}, sl \in Slots}
  \cup {EntryOf(Str(SummerDay), Str(TimeChars(12, 0, FALSE)), Str(TimeChars(13, 0, FALSE)))}

\* entries the loop does not reshape: a start that is no time, no date, a
\* date that is no date, a start that is an object with a toString member
\* (the JSON text {"toString":0}), a number in the place of an entry
OddEntries ==
  { EntryUnrecognized,
    Obj(<<[k |-> K_start, v |-> Str(TimeChars(2, 0, FALSE))],
          [k |-> K_end, v |-> Str(TimeChars(4, 0, FALSE))]>>),
    EntryOf(Str(<<"s", "o", "o", "n">>), Str(TimeChars(2, 0, FALSE)), Str(TimeChars(4, 0, FALSE))),
    EntryOf(Str(SpringDay), Obj(<<[k |-> K_toString, v |-> Num(0)]>>), Str(TimeChars(4, 0, FALSE))),
    Num(1) }

Entries == ScheduleEntries \cup OddEntries
EntryLists == UNION {[1..n -> Entries] : n \in 0..MaxEntries}

\* the fact {"data": {key: [entries]}}
FactOf(key, entries) ==
  Obj(<<[k |-> K_data, v |-> Obj(<<[k |-> key, v |-> Arr(entries)]>>)]>>)
Facts == {FactOf(key, entries) : key \in {K_gpv, K_note}, entries \in EntryLists}

\* the page of a fact: the marker and the literal, a lexeme each
FactLiteral == "{\"data\":{..}}"

NormInit ==
  /\ hourCycle \in HourCycles
  /\ cmd = [region |-> RegionId, output |-> OutPath, upstream |-> Null, pretty |-> TRUE]
  /\ templateJson = TemplateFile
  /\ fs = [p \in Paths |-> Absent]
  /\ clock = 1
  /\ runs = 1
  /\ pc = "normalize"
  /\ args = cmd
  /\ input = [exists |-> TRUE, readable |-> TRUE, html |-> <<MARKER, FactLiteral>>]
  /\ ext = [error |-> "none", jsonLike |-> <<FactLiteral>>, startIndex |-> 2, endIndex |-> 3]
  /\ \E fact \in Facts :
       parsed = [error |-> "none", value |-> fact, method |-> "json", exit |-> FALSE,
                 ran |-> FALSE, called |-> FALSE]
  /\ existing = Null
  /\ pending = NoText
  /\ thrown = FALSE
  /\ outcome = "running"
  /\ exitCode = 0
  /\ executed = FALSE
  /\ writes = 0
  /\ drv = NoDriver
  /\ peer = NoPeer

NormNext == Normalize \/ Handler \/ WriteOpen \/ WriteDone \/ Rename
NormSpec == NormInit /\ [][NormNext]_vars

\* the payload of the fact, the entries of its group, the entries written
Payload == Get(parsed.value, K_data)
HasGroup == HasOwn(parsed.value, K_data) /\ HasOwn(Payload, K_gpv) /\ Get(Payload, K_gpv).t = "array"
EntriesIn == Get(Payload, K_gpv).items
EntriesOut == Get(Committed.data, K_gpv).items

\* the shape of an entry the normalizer is to reshape: an object with a date,
\* a start and an end, the two of the pattern H:MM or HH:MM
IsTime(v) ==
  /\ v.t = "string"
  /\ \E colon \in {2, 3} :
       /\ Len(v.s) = colon + 2
       /\ v.s[colon] = ":"
       /\ \A i \in 1..Len(v.s) : i # colon => IsDigit(v.s[i])
ShapeRecognized(entry) ==
  /\ entry.t = "object"
  /\ \E d \in 1..Len(DateAliases) : Truthy(Get(entry, DateAliases[d]))
  /\ IsTime(FirstTruthy(entry, StartAliases))
  /\ IsTime(FirstTruthy(entry, EndAliases))

\* C13: the group of a fact keeps the number and the order of its entries, an
\* entry whose date, start or end is missing or is no time of the pattern is
\* written as it was at its place, and no entry makes the normalization fail
C13_FallbackPreserved ==
  (pc = "exited" /\ HasGroup) =>
     /\ outcome = "success"
     /\ Len(EntriesOut) = Len(EntriesIn)
     /\ \A j \in 1..Len(EntriesIn) :
          ~ShapeRecognized(EntriesIn[j]) => EntriesOut[j] = EntriesIn[j]

\* the fact has a data field and the invocation has written its document
CarriesPayload == Wrote /\ outcome = "success" /\ HasOwn(parsed.value, K_data)

\* no key of the value is of the pattern of a group identifier
NoGroupKey(v) == v.t = "object" => \A i \in 1..Len(v.m) : ~groupKeyRe(v.m[i].k)

MinutesOf(timeChars) ==
  Number(Split(timeChars, ":")[1]) * 60 + Number(Split(timeChars, ":")[2])

\* the offset of the zone at a wall time of a day the clocks change: the one
\* before the change until 03:00, the one after the change from 04:00 on
\* (the clocks go from 03:00 to 04:00 in spring, from 04:00 to 03:00 in fall)
ChangeOf(day) == IF day = SpringDay THEN DstStart ELSE DstEnd
BeforeChange(minutes) == minutes < 3 * 60
AfterChange(minutes) == minutes >= 4 * 60
OffsetOnDay(day, minutes) ==
  IF BeforeChange(minutes) THEN KyivOffset(ChangeOf(day) - 1) ELSE KyivOffset(ChangeOf(day))

\* the offset component of a timestamp YYYY-MM-DDTHH:MM:SS+HH:MM
OffsetPart(iso) == SubSeq(iso, Len(iso) - 5, Len(iso))

\* the timestamp written for a time of an entry carries the offset of the zone
OffsetWritten(day, time, written) ==
  (BeforeChange(MinutesOf(time.s)) \/ AfterChange(MinutesOf(time.s))) =>
     /\ written.t = "string"
     /\ OffsetPart(written.s) = formatOffset(OffsetOnDay(day, MinutesOf(time.s)))

\* C15: on a day the clocks change, the timestamps of an entry carry the
\* offset before the change for a wall time before it and the offset after
\* the change for a wall time after it, in spring and in fall
C15_DstOffsets ==
  (pc = "exited" /\ outcome = "success" /\ HasGroup) =>
     \A j \in 1..Len(EntriesIn) :
        (ShapeRecognized(EntriesIn[j]) /\ Get(EntriesIn[j], K_date) \in {Str(SpringDay), Str(FallDay)}) =>
           /\ OffsetWritten(Get(EntriesIn[j], K_date).s, Get(EntriesIn[j], K_start),
                            Get(EntriesOut[j], K_startLocal))
           /\ OffsetWritten(Get(EntriesIn[j], K_date).s, Get(EntriesIn[j], K_end),
                            Get(EntriesOut[j], K_endLocal))

\* a calendar date YYYY-MM-DD
IsDate(v) ==
  /\ v.t = "string"
  /\ Len(v.s) = 10
  /\ \A i \in 1..10 : IF i \in {5, 8} THEN v.s[i] = "-" ELSE IsDigit(v.s[i])

\* the wall time of a date and a time, in minutes, counted as DateUTC counts
WallOf(dateChars, timeChars) ==
  DateUTC(Number(SubSeq(dateChars, 1, 4)), Number(SubSeq(dateChars, 6, 7)) - 1,
          Number(SubSeq(dateChars, 9, 10)), 0, MinutesOf(timeChars))

\* the instants at which the wall clock of the zone shows a wall time: none
\* in the hour the clocks skip, two in the hour they repeat
InstantsShowing(wall) == {u \in {wall - 120, wall - 180} : u + KyivOffset(u) = wall}

\* the timestamp of the wall time d, t: d, t padded to HH:MM, seconds 00, and
\* the offset of the zone at the instant the wall clock shows d, t
LocalIso(dateChars, timeChars, instant) ==
  dateChars \o <<"T">> \o PadTime(timeChars) \o <<":", "0", "0">>
  \o formatOffset(KyivOffset(instant))

\* the instant a timestamp YYYY-MM-DDTHH:MM:SS+HH:MM denotes: its fields less
\* its offset
InstantOf(iso) ==
  DateUTC(Number(SubSeq(iso, 1, 4)), Number(SubSeq(iso, 6, 7)) - 1, Number(SubSeq(iso, 9, 10)),
          Number(SubSeq(iso, 12, 13)), Number(SubSeq(iso, 15, 16)))
  - (IF iso[20] = "-" THEN -1 ELSE 1)
    * (Number(SubSeq(iso, 21, 22)) * 60 + Number(SubSeq(iso, 24, 25)))

\* the timestamp written for the time t of the date d is the timestamp of the
\* wall time d, t, and read back it shows d, t on the wall clock of the zone
DenotesWallTime(date, time, written) ==
  \A instant \in InstantsShowing(WallOf(date.s, time.s)) :
     Cardinality(InstantsShowing(WallOf(date.s, time.s))) = 1 =>
        /\ written.t = "string"
        /\ written.s = LocalIso(date.s, time.s, instant)
        /\ InstantOf(written.s) + KyivOffset(InstantOf(written.s)) = WallOf(date.s, time.s)

\* C16: the startLocal and the endLocal of a recognized entry with the date d
\* and the times t are the timestamps of the instants at which the wall clock
\* of the zone shows d, t: d, t padded to HH:MM, seconds 00 and the offset of
\* the zone at that instant, so that read back they show d, t
C16_LocalTimestamps ==
  (pc = "exited" /\ outcome = "success" /\ HasGroup) =>
     \A j \in 1..Len(EntriesIn) :
        (ShapeRecognized(EntriesIn[j]) /\ IsDate(Get(EntriesIn[j], K_date))) =>
           /\ DenotesWallTime(Get(EntriesIn[j], K_date), Get(EntriesIn[j], K_start),
                              Get(EntriesOut[j], K_startLocal))
           /\ DenotesWallTime(Get(EntriesIn[j], K_date), Get(EntriesIn[j], K_end),
                              Get(EntriesOut[j], K_endLocal))

\* the invocation failed, found no document and has written one
FailedWithoutDocument == Wrote /\ outcome \in FailureOutcomes /\ existing = Null

\* C17: an invocation that fails and finds no document writes the template
\* baseline with the status alone updated: dataEmpty true, dataEmptyReason
\* initialized, lastUpdated and contentHash null, no data, and the status
\* error, ok false, attempt 1
C17_BaselineOnFailure ==
  FailedWithoutDocument =>
     /\ Committed.meta.dataEmpty = TRUE
     /\ Committed.meta.dataEmptyReason = Msg("initialized")
     /\ Committed.lastUpdated = Null
     /\ Committed.meta.contentHash = Null
     /\ Committed.lastUpdateStatus.status = "error"
     /\ Committed.lastUpdateStatus.ok = FALSE
     /\ Committed.lastUpdateStatus.attempt = 1
     /\ \E tnow \in 1..MaxClock :
          [Committed EXCEPT !.lastUpdateStatus =
              loadTemplateBase(args.region, args.upstream, tnow, templateJson).lastUpdateStatus]
            = loadTemplateBase(args.region, args.upstream, tnow, templateJson)

\* a page without the marker, no document and no template file: the built-in
\* baseline is written with the code 422
C17_Witness ==
  /\ FailedWithoutDocument
  /\ outcome = "MarkerNotFound"
  /\ templateJson = Null
  /\ Committed.data = Arr(<<>>)
  /\ Committed.meta.dataEmptyReason = Msg("initialized")
  /\ Committed.lastUpdateStatus.code = Num(422)
  /\ Committed.lastUpdateStatus.attempt = 1

-----------------------------------------------------------------------------
(* The batch driver, scripts/parse_regions.sh, under set -euo pipefail.     *)
(* The files outputs/*.html are numbered in the order of the glob.          *)

MaxFiles == 3

engine == <<hourCycle, cmd, templateJson, fs, clock, runs, pc, args, input, ext, parsed,
            existing, pending, thrown, outcome, exitCode, executed, writes, peer>>

\* the statuses an invocation of scripts/parse_fact.js ends with
EngineExits == {0, UsageExit, HijackExit, KilledExit}

\* REGION_SOURCES_JSON: empty, the text of a JSON value, a text that is no
\* JSON (the alternative operator of the filter of line 48 yields nothing for
\* a value that cannot be indexed)
Sources == {"unset", "json", "text"}

\* the exit status of jq for an input that is no JSON; exit 1 of lines 13, 17, 21
JqInputExit == 2
SetupExit == 1

DrvInit ==
  /\ hourCycle \in HourCycles
  /\ cmd = [region |-> RegionId, output |-> OutPath, upstream |-> Null, pretty |-> TRUE]
  /\ templateJson = TemplateFile
  /\ fs = [p \in Paths |-> Absent]
  /\ clock = 1
  /\ runs = 0
  /\ pc = "idle"
  /\ args = NoArgs
  /\ input = NoInput
  /\ ext = NoExt
  /\ parsed = NoParse
  /\ existing = Null
  /\ pending = NoText
  /\ thrown = FALSE
  /\ outcome = "none"
  /\ exitCode = 0
  /\ executed = FALSE
  /\ writes = 0
  /\ peer = NoPeer
  /\ \E n \in 0..MaxFiles, src \in Sources :
       drv = [NoDriver EXCEPT !.pc = "setup", !.files = n, !.sources = src]

\* lines 12-40: the tools are looked up, .env is read, data/ is made; any of
\* them may fail and end the script
DrvSetup ==
  /\ drv.pc = "setup"
  /\ \E ok \in BOOLEAN :
       drv' = IF ok THEN [drv EXCEPT !.pc = "loop", !.i = 1]
              ELSE [drv EXCEPT !.pc = "unready", !.status = SetupExit]
  /\ UNCHANGED engine

\* lines 41-44: the next file of the glob, counted; line 62 after the last
DrvLoop ==
  /\ drv.pc = "loop"
  /\ drv' = IF drv.i > drv.files THEN [drv EXCEPT !.pc = "summary"]
            ELSE [drv EXCEPT !.pc = "lookup", !.processed = @ + 1]
  /\ UNCHANGED engine

\* lines 46-51: the upstream of the region, asked of jq when
\* REGION_SOURCES_JSON is not empty; under set -e and pipefail a failure of jq
\* in the assignment of line 48 ends the script with the status of jq
DrvLookup ==
  /\ drv.pc = "lookup"
  /\ drv' = IF drv.sources = "text"
              THEN [drv EXCEPT !.pc = "aborted", !.status = JqInputExit]
              ELSE [drv EXCEPT !.pc = "invoke"]
  /\ UNCHANGED engine

\* lines 53-59: the invocation, and the counter of its status
DrvInvoke ==
  /\ drv.pc = "invoke"
  /\ \E status \in EngineExits :
       drv' = [drv EXCEPT !.pc = "loop",
                          !.invoked = Append(@, [file |-> drv.i, status |-> status]),
                          !.success = IF status = 0 THEN @ + 1 ELSE @,
                          !.failed = IF status = 0 THEN @ ELSE @ + 1,
                          !.i = @ + 1]
  /\ UNCHANGED engine

\* lines 62-66
DrvSummary ==
  /\ drv.pc = "summary"
  /\ drv' = [drv EXCEPT !.pc = "done", !.status = 0]
  /\ UNCHANGED engine

DrvNext == DrvSetup \/ DrvLoop \/ DrvLookup \/ DrvInvoke \/ DrvSummary
DrvSpec == DrvInit /\ [][DrvNext]_vars

\* the driver has ended after it had entered its loop
DrvEnded == drv.pc \in {"done", "aborted"}

\* C18: the driver invokes the script once for each file it found, in their
\* order; no status of an invocation or of a step for a file ends it before
\* the last file; it ends with processed = success + failed = the number of
\* the files and with the status 0
C18_DriverCompletes ==
  /\ Len(drv.invoked) <= drv.files
  /\ \A k \in 1..Len(drv.invoked) : drv.invoked[k].file = k
  /\ DrvEnded =>
       /\ Len(drv.invoked) = drv.files
       /\ drv.processed = drv.files
       /\ drv.processed = drv.success + drv.failed
       /\ drv.status = 0

-----------------------------------------------------------------------------
(* Two invocations at the same time, for two regions: the invocation of the *)
(* variables above and a peer, whose steps on the file system are the reads *)
(* and writes of main and writeFileAtomic for its own output path.          *)

PeerRegion == Msg("lviv")
OtherPath == <<"data/lviv.json">>
DuoPaths == {OutPath, TmpPath(OutPath), OtherPath, TmpPath(OtherPath)}

\* the document an earlier invocation for the region left: input not found
PriorText(region) ==
  Stringify(updateStatusOnError(Null, region, Null, 404, Msg("Input not found"), 1, 1, Null),
            TRUE).text

\* the output paths before the two invocations: no document or an earlier one
Starts ==
  { [p \in DuoPaths |->
       IF p = OutPath /\ mine THEN FileOf(PriorText(RegionId))
       ELSE IF p = OtherPath /\ theirs THEN FileOf(PriorText(PeerRegion))
       ELSE Absent] : mine \in BOOLEAN, theirs \in BOOLEAN }

DuoInit ==
  /\ hourCycle \in HourCycles
  /\ cmd \in ArgSets
  /\ templateJson \in Templates
  /\ fs \in Starts
  /\ clock = 1
  /\ runs = 0
  /\ pc = "idle"
  /\ args = NoArgs
  /\ input = NoInput
  /\ ext = NoExt
  /\ parsed = NoParse
  /\ existing = Null
  /\ pending = NoText
  /\ thrown = FALSE
  /\ outcome = "none"
  /\ exitCode = 0
  /\ executed = FALSE
  /\ writes = 0
  /\ drv = NoDriver
  /\ peer = [NoPeer EXCEPT !.pc = "main", !.output = OtherPath, !.start = fs]

\* the text the peer hands to writeFileAtomic: of a missing input (lines
\* 326-333) or of the fact {"data": {"GPV1.1": [entry]}} (lines 356-383)
PeerText(found, prior, now) ==
  IF found
    THEN Stringify(mergeParsed(prior, PeerRegion, Null, <<FactLiteral>>,
                               FactOf(K_gpv, <<EntryRecognized>>), now, now), TRUE).text
    ELSE Stringify(updateStatusOnError(prior, PeerRegion, Null, 404, Msg("Input not found"),
                                       now, now, templateJson), TRUE).text

peerFrame == <<hourCycle, cmd, templateJson, clock, runs, pc, args, input, ext, parsed,
               existing, pending, thrown, outcome, exitCode, executed, writes, drv>>

\* lines 328-330, 360-382 of the peer: loadExisting(args.output) and the text
PeerRead ==
  /\ peer.pc = "main"
  /\ \E found \in BOOLEAN :
       peer' = [peer EXCEPT !.pc = "write",
                            !.existing = loadExisting(fs, peer.output),
                            !.pending = PeerText(found, loadExisting(fs, peer.output), clock)]
  /\ UNCHANGED fs
  /\ UNCHANGED peerFrame

\* line 41 of the peer: the temporary file opened and truncated
PeerWriteOpen ==
  /\ peer.pc = "write"
  /\ fs' = [fs EXCEPT ![TmpPath(peer.output)] = Truncated]
  /\ peer' = [peer EXCEPT !.pc = "writing"]
  /\ UNCHANGED peerFrame

\* line 41 of the peer: the text written
PeerWriteDone ==
  /\ peer.pc = "writing"
  /\ fs' = [fs EXCEPT ![TmpPath(peer.output)] = FileOf(peer.pending)]
  /\ peer' = [peer EXCEPT !.pc = "rename"]
  /\ UNCHANGED peerFrame

\* line 42 of the peer
PeerRename ==
  /\ peer.pc = "rename"
  /\ fs' = renameSync(fs, TmpPath(peer.output), peer.output)
  /\ peer' = [peer EXCEPT !.pc = "exited"]
  /\ UNCHANGED peerFrame

DuoNext ==
  \/ Invoke
  \/ CheckInput
  \/ Locate
  \/ Parse
  \/ Normalize
  \/ Handler
  \/ WriteOpen
  \/ WriteDone
  \/ Rename
  \/ PeerRead
  \/ PeerWriteOpen
  \/ PeerWriteDone
  \/ PeerRename

DuoSpec == DuoInit /\ [][DuoNext]_vars

\* the paths of a region as its invocation alone leaves them: the output path
\* holds the text of the invocation once it has renamed, the content it had
\* at the start until then; the temporary path holds what the invocation is
\* writing and is absent otherwise
PathsOfAlone(out, at, renamed, text) ==
  /\ fs[out] = IF renamed THEN FileOf(text) ELSE peer.start[out]
  /\ fs[TmpPath(out)] = CASE at = "writing" -> Truncated
                           [] at = "rename" -> FileOf(text)
                           [] OTHER -> Absent

\* the document an invocation has read is the one its region had at the start
ReadOfAlone(out, at, read) ==
  at \in {"write", "writing", "rename"} => read = loadExisting(peer.start, out)

\* C19: of two invocations for two regions whose reads, writes to the
\* temporary path and renames interleave, each reads the document of its own
\* region and leaves on its own paths what it leaves when it runs alone;
\* neither changes the output path or the temporary path of the other
C19_RegionsIndependent ==
  peer.pc # "none" =>
     /\ PathsOfAlone(OutPath, pc, Wrote, pending)
     /\ ReadOfAlone(OutPath, pc, existing)
     /\ Wrote => existing = loadExisting(peer.start, OutPath)
     /\ PathsOfAlone(OtherPath, peer.pc, peer.pc = "exited", peer.pending)
     /\ ReadOfAlone(OtherPath, peer.pc, peer.existing)
     /\ peer.pc = "exited" => peer.existing = loadExisting(peer.start, OtherPath)

\* both invocations have read an earlier document and written their temporary
\* files, neither has renamed
C19_Witness ==
  /\ pc = "rename"
  /\ peer.pc = "rename"
  /\ existing # Null
  /\ peer.existing # Null
  /\ fs[TmpPath(OutPath)] = FileOf(pending)
  /\ fs[TmpPath(OtherPath)] = FileOf(peer.pending)
  /\ fs[OutPath] = peer.start[OutPath]
  /\ fs[OtherPath] = peer.start[OtherPath]

-----------------------------------------------------------------------------
(* The stages of one invocation *)

\* the stage has run in the invocation: its result is there
LocateRan == ext # NoExt
ParseRan == parsed # NoParse
LocateFailed == LocateRan /\ ext.error # "none"
ParseFailed == ParseRan /\ parsed.error # "none"

\* the invocation is persisting a document or has ended
Persisting == pc \in {"write", "writing", "rename", "exited"}

\* C20: the stages of an invocation run in the order locate, parse, normalize,
\* persist: the parser runs after the locator has found a span, the
\* normalizer after locator and parser have succeeded; after the failure of a
\* stage no later stage runs and the invocation persists an error status; an
\* invocation writes its document exactly once
C20_StageOrder ==
  /\ pc \in {"main", "locate"} => ~LocateRan /\ ~ParseRan
  /\ pc = "parse" => LocateRan /\ ~LocateFailed /\ ~ParseRan
  /\ ParseRan => LocateRan /\ ~LocateFailed
  /\ (pc = "normalize" \/ outcome = "success") =>
        LocateRan /\ ~LocateFailed /\ ParseRan /\ ~ParseFailed
  /\ LocateFailed =>
        /\ ~ParseRan
        /\ Persisting
        /\ pending.json.lastUpdateStatus.status = "error"
  /\ ParseFailed =>
        /\ Persisting
        /\ outcome # "success"
        /\ pending.json.lastUpdateStatus.status = "error"
  /\ writes <= 1
  /\ (pc = "exited" /\ outcome \notin {"usage", "killed"}) => writes = 1

-----------------------------------------------------------------------------
(* The status block of the documents *)

\* the status block is of one piece: ok, parsed, 200 and no message go
\* together, the status is parsed or error, the attempt is counted
StatusConsistent(st) ==
  /\ st.ok = TRUE <=> st.status = "parsed"
  /\ st.status = "parsed" <=> st.code = Num(200)
  /\ st.code = Num(200) <=> st.message = Null
  /\ st.status \in {"parsed", "error"}
  /\ st.status # "idle"
  /\ st.attempt >= 1

\* the invocation has a text for writeFileAtomic
HasText == pc \in {"write", "writing", "rename"} \/ Wrote

\* C21: in every document an invocation writes, ok is true exactly when the
\* status is parsed, exactly when the code is 200, exactly when the message is
\* null; the status is parsed or error, never idle, and the attempt is at
\* least 1
C21_StatusConsistent ==
  /\ HasText => StatusConsistent(pending.json.lastUpdateStatus)
  /\ Committed # Null => StatusConsistent(Committed.lastUpdateStatus)

\* a parsed document written over the document of a failed invocation
C21_Witness ==
  /\ Wrote
  /\ outcome = "success"
  /\ existing # Null
  /\ existing.lastUpdateStatus.status = "error"
  /\ existing.lastUpdateStatus.ok = FALSE
  /\ existing.lastUpdateStatus.message # Null
  /\ Committed.lastUpdateStatus.status = "parsed"
  /\ Committed.lastUpdateStatus.ok = TRUE
  /\ Committed.lastUpdateStatus.code = Num(200)
  /\ Committed.lastUpdateStatus.message = Null
  /\ Committed.lastUpdateStatus.attempt = 2

-----------------------------------------------------------------------------
(* Invocations on an output path that holds a document with the names of    *)
(* the region filled in, as the README shows one.                           *)

\* data/kyiv.json with regionName and regionType, parsed five times
NamedDocument ==
  [mergeParsed(Null, RegionId, Null, <<FactLiteral>>, FactOf(K_gpv, <<EntryRecognized>>), 1, 1)
     EXCEPT !.regionName = Msg("Kyiv"),
            !.regionType = Msg("city"),
            !.lastUpdateStatus.attempt = 5]

NamedInit ==
  /\ hourCycle \in HourCycles
  /\ cmd \in ArgSets
  /\ templateJson \in Templates
  /\ fs = [p \in Paths |->
             IF p = OutPath THEN FileOf(Stringify(NamedDocument, TRUE).text) ELSE Absent]
  /\ clock = 1
  /\ runs = 0
  /\ pc = "idle"
  /\ args = NoArgs
  /\ input = NoInput
  /\ ext = NoExt
  /\ parsed = NoParse
  /\ existing = Null
  /\ pending = NoText
  /\ thrown = FALSE
  /\ outcome = "none"
  /\ exitCode = 0
  /\ executed = FALSE
  /\ writes = 0
  /\ drv = NoDriver
  /\ peer = NoPeer

NamedNext ==
  \/ Invoke
  \/ Reap
  \/ CheckInput
  \/ Locate
  \/ Parse
  \/ Normalize
  \/ Handler
  \/ WriteOpen
  \/ WriteDone
  \/ Rename

NamedSpec == NamedInit /\ [][NamedNext]_vars

\* the document of a success built with no document read, at the readings
\* now and nnow of the clock
FreshDocument(now, nnow) ==
  Stringify(mergeParsed(Null, args.region, args.upstream, ext.jsonLike, parsed.value,
                        now, nnow), args.pretty).text.json

\* a document with the two fields a success carries forward from the document
\* read put in
Carrying(doc, read) ==
  IF read = Null THEN doc
  ELSE [doc EXCEPT !.meta.fileCreated = read.meta.fileCreated,
                   !.lastUpdateStatus.attempt = read.lastUpdateStatus.attempt + 1]

=============================================================================
